---- MODULE Spec2Model ----
(***************************************************************************)
(* Model of the YOLO annotation backend: the relational tables (users,     *)
(* projects, project_assignments, images, annotations), the image files on *)
(* disk, and one action per HTTP handler of main.py together with the      *)
(* service method it calls.                                                *)
(*                                                                         *)
(* Conventions.  Python None is the empty tuple and a present Optional     *)
(* value v is <<v>>.  uuid4() is a fresh identifier: the least unused one  *)
(* of a bounded pool.  The annotations table is kept per image_id, in      *)
(* insertion order (every query of the code filters on image_id); a row    *)
(* whose image_id names no image is still representable.                   *)
(***************************************************************************)
EXTENDS Integers, Sequences, FiniteSets, TLC

\* ---------------------------------------------------------------- bounds
MaxUsers == 3
MaxProjects == 2
MaxImages == 2
MaxBoxes == 2
MaxBatch == 1

UserIds == 1..MaxUsers
ProjectIds == 1..MaxProjects
ImageIds == 1..MaxImages

\* ------------------------------------------------------- Optional values
None == <<>>
Some(v) == <<v>>
\* Python truthiness of an Optional string / Optional int
TruthyStr(o) == o # None /\ o[1] # ""
TruthyInt(o) == o # None /\ o[1] # 0

\* ------------------------------------------------------------ input pools
Roles == {"admin", "annotator"}
Usernames == {"tcci", "tcc", "new"}
ClassDefLists == {<<>>}

VARIABLES users, projects, assigned, images, annotations, files, exports, upl, resp,
          tokens, now, sess

db == <<users, projects, assigned, images, annotations, files, exports>>
\* The bearer tokens issued so far, the clock, and the requests being served
\* concurrently in sessions of their own
env == <<tokens, now, sess>>
vars == <<users, projects, assigned, images, annotations, files, exports, upl, resp,
          tokens, now, sess>>

\* The least unused identifier of a pool (uuid4 is fresh)
NewId(pool, used) == CHOOSE i \in pool \ used : \A j \in pool \ used : i <= j

\* Restriction of a function to a subset of its domain
Restrict(f, S) == [x \in S |-> f[x]]
\* f extended (or overwritten) at k
Put(f, k, v) == [x \in DOMAIN f \cup {k} |-> IF x = k THEN v ELSE f[x]]

\* The last request and its response, as seen at the HTTP boundary; code 0
\* is a request still in flight, awaiting file.read()
Reply(op, cu, target, req, code, body) ==
    resp' = [op |-> op, user |-> cu, target |-> target, req |-> req,
             code |-> code, body |-> body]

\* A handler served on its own: it issues no token, and neither the clock
\* nor another session moves while it runs
Respond(op, cu, target, req, code, body) ==
    Reply(op, cu, target, req, code, body) /\ UNCHANGED env

\* The salted hash of a password
hash_password(pw) == <<"hash", pw>>

\* ------------------------------------------------------------------ rows
User(username, pw, role) ==
    [username |-> username, password_hash |-> hash_password(pw), role |-> role]

directory_structure(name) ==
    [images |-> <<"/projects", name, "images">>,
     labels |-> <<"/projects", name, "labels">>,
     classes |-> <<"/projects", name, "classes.txt">>]

\* ------------------------------------------------------- project service
\* Rows of project_assignments of one project / of one user
assigned_users(pid) == {u \in UserIds : <<pid, u>> \in assigned}

create_project(cu, data) ==
    /\ DOMAIN projects # ProjectIds
    /\ LET pid == NewId(ProjectIds, DOMAIN projects)
           project == [name |-> data.name,
                       created_by |-> cu,
                       class_names |-> data.class_names,
                       class_definitions |-> data.class_definitions,
                       directory_structure |-> directory_structure(data.name)]
       IN /\ projects' = Put(projects, pid, project)
          /\ assigned' = IF cu \in DOMAIN users
                         THEN assigned \cup {<<pid, cu>>}
                         ELSE assigned
          /\ Respond("create_project", cu, pid, data, 200, project)
    /\ UNCHANGED <<users, images, annotations, files, exports, upl>>

\* Status of ProjectService.get_project: 404, 403 or 200
get_project_status(cu, pid) ==
    IF pid \notin DOMAIN projects THEN 404
    ELSE IF users[cu].role # "admin" /\ <<pid, cu>> \notin assigned THEN 403
    ELSE 200

get_project(cu, pid) ==
    /\ LET code == get_project_status(cu, pid)
       IN Respond("get_project", cu, pid, None, code,
                  IF code = 200 THEN projects[pid] ELSE None)
    /\ UNCHANGED <<db, upl>>

\* A listing that also returns the projects the user created
get_user_projects_created(cu) ==
    IF users[cu].role = "admin"
    THEN DOMAIN projects
    ELSE {p \in DOMAIN projects : <<p, cu>> \in assigned \/ projects[p].created_by = cu}

\* Ids of the projects ProjectService.get_user_projects returns
get_user_projects(cu) ==
    IF users[cu].role = "admin"
    THEN DOMAIN projects
    ELSE {p \in DOMAIN projects : <<p, cu>> \in assigned}

get_projects(cu) ==
    /\ Respond("get_projects", cu, 0, None, 200, get_user_projects(cu))
    /\ UNCHANGED <<db, upl>>

update_project(cu, pid, upd) ==
    LET code == get_project_status(cu, pid) IN
    IF code # 200
    THEN Respond("update_project", cu, pid, upd, code, None) /\ UNCHANGED <<db, upl>>
    ELSE IF users[cu].role # "admin" /\ projects[pid].created_by # cu
    THEN Respond("update_project", cu, pid, upd, 403, None) /\ UNCHANGED <<db, upl>>
    ELSE
      LET p0 == projects[pid]
          p1 == IF upd.name # None
                THEN [p0 EXCEPT !.name = upd.name[1],
                                !.directory_structure = directory_structure(upd.name[1])]
                ELSE p0
          p2 == IF upd.class_names # None
                THEN [p1 EXCEPT !.class_names = upd.class_names[1]]
                ELSE p1
          p3 == IF upd.class_definitions # None
                THEN [p2 EXCEPT !.class_definitions = upd.class_definitions[1]]
                ELSE p2
      IN /\ projects' = [projects EXCEPT ![pid] = p3]
         /\ Respond("update_project", cu, pid, upd, 200, p3)
         /\ UNCHANGED <<users, assigned, images, annotations, files, exports, upl>>

\* db.delete(project) without the cascade to the project's images
cascade_delete_project_keeps_images(pid) ==
    /\ projects' = Restrict(projects, DOMAIN projects \ {pid})
    /\ assigned' = {a \in assigned : a[1] # pid}
    /\ images' = images
    /\ annotations' = annotations

\* db.delete(project): the ORM removes the project's rows of
\* project_assignments and cascades to its images and their annotations
cascade_delete_project(pid) ==
    LET gone == {i \in DOMAIN images : images[i].project_id = pid}
    IN /\ projects' = Restrict(projects, DOMAIN projects \ {pid})
       /\ assigned' = {a \in assigned : a[1] # pid}
       /\ images' = Restrict(images, DOMAIN images \ gone)
       /\ annotations' = [i \in ImageIds |-> IF i \in gone THEN <<>> ELSE annotations[i]]

delete_project(cu, pid) ==
    LET code == get_project_status(cu, pid) IN
    IF code # 200
    THEN Respond("delete_project", cu, pid, None, code, None) /\ UNCHANGED <<db, upl>>
    ELSE IF users[cu].role # "admin" /\ projects[pid].created_by # cu
    THEN Respond("delete_project", cu, pid, None, 403, None) /\ UNCHANGED <<db, upl>>
    ELSE /\ cascade_delete_project(pid)
         /\ Respond("delete_project", cu, pid, None, 200, None)
         /\ UNCHANGED <<users, files, exports, upl>>

\* assign_user without the membership test: appending a user that is
\* already assigned inserts a duplicate primary key and the commit fails
assign_user_appends(cu, pid, uid) ==
    IF pid \notin DOMAIN projects \/ uid \notin DOMAIN users
    THEN Respond("assign_user", cu, <<pid, uid>>, None, 404, None) /\ UNCHANGED <<db, upl>>
    ELSE IF uid \in assigned_users(pid)
    THEN Respond("assign_user", cu, <<pid, uid>>, None, 500, None) /\ UNCHANGED <<db, upl>>
    ELSE /\ assigned' = assigned \cup {<<pid, uid>>}
         /\ Respond("assign_user", cu, <<pid, uid>>, None, 200,
                    [message |-> "User assigned to project successfully", assigned |-> TRUE])
         /\ UNCHANGED <<users, projects, images, annotations, files, exports, upl>>

assign_user(cu, pid, uid) ==
    IF pid \notin DOMAIN projects \/ uid \notin DOMAIN users
    THEN Respond("assign_user", cu, <<pid, uid>>, None, 404, None) /\ UNCHANGED <<db, upl>>
    ELSE IF uid \in assigned_users(pid)
    THEN /\ Respond("assign_user", cu, <<pid, uid>>, None, 200,
                    [message |-> "User already assigned to project", assigned |-> TRUE])
         /\ UNCHANGED <<db, upl>>
    ELSE /\ assigned' = assigned \cup {<<pid, uid>>}
         /\ Respond("assign_user", cu, <<pid, uid>>, None, 200,
                    [message |-> "User assigned to project successfully", assigned |-> TRUE])
         /\ UNCHANGED <<users, projects, images, annotations, files, exports, upl>>

\* unassign_user without the test for the project's creator
unassign_user_any(cu, pid, uid) ==
    IF pid \notin DOMAIN projects
    THEN Respond("unassign_user", cu, <<pid, uid>>, None, 404, None) /\ UNCHANGED <<db, upl>>
    ELSE /\ assigned' = IF uid \in DOMAIN users /\ uid \in assigned_users(pid)
                        THEN assigned \ {<<pid, uid>>}
                        ELSE assigned
         /\ Respond("unassign_user", cu, <<pid, uid>>, None, 200,
                    [message |-> "User unassigned from project successfully", assigned |-> FALSE])
         /\ UNCHANGED <<users, projects, images, annotations, files, exports, upl>>

unassign_user(cu, pid, uid) ==
    IF pid \notin DOMAIN projects
    THEN Respond("unassign_user", cu, <<pid, uid>>, None, 404, None) /\ UNCHANGED <<db, upl>>
    ELSE IF projects[pid].created_by = uid
    THEN Respond("unassign_user", cu, <<pid, uid>>, None, 400, None) /\ UNCHANGED <<db, upl>>
    ELSE /\ assigned' = IF uid \in DOMAIN users /\ uid \in assigned_users(pid)
                        THEN assigned \ {<<pid, uid>>}
                        ELSE assigned
         /\ Respond("unassign_user", cu, <<pid, uid>>, None, 200,
                    [message |-> "User unassigned from project successfully", assigned |-> FALSE])
         /\ UNCHANGED <<users, projects, images, annotations, files, exports, upl>>

\* The admin gate of the two assignment routes
assign_user_to_project(cu, pid, uid) ==
    IF users[cu].role # "admin"
    THEN Respond("assign_user", cu, <<pid, uid>>, None, 403, None) /\ UNCHANGED <<db, upl>>
    ELSE assign_user(cu, pid, uid)

unassign_user_from_project(cu, pid, uid) ==
    IF users[cu].role # "admin"
    THEN Respond("unassign_user", cu, <<pid, uid>>, None, 403, None) /\ UNCHANGED <<db, upl>>
    ELSE unassign_user(cu, pid, uid)

\* ---------------------------------------------------------- user service
\* uuid4 never repeats: an id is unused when no account has it and no token
\* was issued to an account that had it
used_user_ids == DOMAIN users \cup {t.uid : t \in tokens}

create_user(cu, data) ==
    IF \E u \in DOMAIN users : users[u].username = data.username
    THEN Respond("register", cu, 0, data, 400, "Username already exists")
         /\ UNCHANGED <<db, upl>>
    ELSE /\ UserIds \ used_user_ids # {}
         /\ LET uid == NewId(UserIds, used_user_ids)
                user == User(data.username, data.password, data.role)
            IN /\ users' = Put(users, uid, user)
               /\ Respond("register", cu, uid, data, 200, user)
         /\ UNCHANGED <<projects, assigned, images, annotations, files, exports, upl>>

\* The fields of a user row after the update's truthy fields are applied
updated_user(u0, upd) ==
    LET u1 == IF TruthyStr(upd.username) /\ upd.username[1] # u0.username
              THEN [u0 EXCEPT !.username = upd.username[1]] ELSE u0
        u2 == IF TruthyStr(upd.password)
              THEN [u1 EXCEPT !.password_hash = hash_password(upd.password[1])] ELSE u1
    IN IF TruthyStr(upd.role) THEN [u2 EXCEPT !.role = upd.role[1]] ELSE u2

\* update_user without the query for another holder of the new username
update_user_service_unchecked(cu, uid, upd) ==
    IF uid \notin DOMAIN users
    THEN Respond("update_user", cu, uid, upd, 404, None) /\ UNCHANGED <<db, upl>>
    ELSE /\ users' = [users EXCEPT ![uid] = updated_user(users[uid], upd)]
         /\ Respond("update_user", cu, uid, upd, 200, updated_user(users[uid], upd))
         /\ UNCHANGED <<projects, assigned, images, annotations, files, exports, upl>>

update_user_service(cu, uid, upd) ==
    IF uid \notin DOMAIN users
    THEN Respond("update_user", cu, uid, upd, 404, None) /\ UNCHANGED <<db, upl>>
    ELSE IF /\ TruthyStr(upd.username)
            /\ upd.username[1] # users[uid].username
            /\ \E u \in DOMAIN users : users[u].username = upd.username[1]
    THEN Respond("update_user", cu, uid, upd, 400, "Username already exists")
         /\ UNCHANGED <<db, upl>>
    ELSE /\ users' = [users EXCEPT ![uid] = updated_user(users[uid], upd)]
         /\ Respond("update_user", cu, uid, upd, 200, updated_user(users[uid], upd))
         /\ UNCHANGED <<projects, assigned, images, annotations, files, exports, upl>>

\* Rows that still reference the user when the ORM deletes it: created_by
\* and uploaded_by are NOT NULL foreign keys, so the delete fails
user_referenced(uid) ==
    \/ \E p \in DOMAIN projects : projects[p].created_by = uid
    \/ \E i \in DOMAIN images : images[i].uploaded_by = uid
    \/ \E i \in ImageIds : \E k \in 1..Len(annotations[i]) :
           annotations[i][k].created_by = uid

\* delete_user on a connection that does not enforce the foreign keys
delete_user_service_unenforced(cu, uid) ==
    IF uid \notin DOMAIN users
    THEN Respond("delete_user", cu, uid, None, 404, None) /\ UNCHANGED <<db, upl>>
    ELSE /\ users' = Restrict(users, DOMAIN users \ {uid})
         /\ assigned' = {a \in assigned : a[2] # uid}
         /\ Respond("delete_user", cu, uid, None, 200, None)
         /\ UNCHANGED <<projects, images, annotations, files, exports, upl>>

delete_user_service(cu, uid) ==
    IF uid \notin DOMAIN users
    THEN Respond("delete_user", cu, uid, None, 404, None) /\ UNCHANGED <<db, upl>>
    ELSE IF user_referenced(uid)
    THEN Respond("delete_user", cu, uid, None, 400, "failed") /\ UNCHANGED <<db, upl>>
    ELSE /\ users' = Restrict(users, DOMAIN users \ {uid})
         /\ assigned' = {a \in assigned : a[2] # uid}
         /\ Respond("delete_user", cu, uid, None, 200, None)
         /\ UNCHANGED <<projects, images, annotations, files, exports, upl>>

\* The admin-gated routes of main.py
register(cu, data) ==
    IF users[cu].role # "admin"
    THEN Respond("register", cu, 0, data, 403, None) /\ UNCHANGED <<db, upl>>
    ELSE create_user(cu, data)

get_users(cu) ==
    /\ IF users[cu].role # "admin"
       THEN Respond("get_users", cu, 0, None, 403, None)
       ELSE Respond("get_users", cu, 0, None, 200, DOMAIN users)
    /\ UNCHANGED <<db, upl>>

\* The update route without the admin gate
update_user_ungated(cu, uid, upd) == update_user_service(cu, uid, upd)

update_user(cu, uid, upd) ==
    IF users[cu].role # "admin"
    THEN Respond("update_user", cu, uid, upd, 403, None) /\ UNCHANGED <<db, upl>>
    ELSE update_user_service(cu, uid, upd)

\* The delete route without the test for the caller's own id
delete_user_any(cu, uid) ==
    IF users[cu].role # "admin"
    THEN Respond("delete_user", cu, uid, None, 403, None) /\ UNCHANGED <<db, upl>>
    ELSE delete_user_service(cu, uid)

delete_user(cu, uid) ==
    IF users[cu].role # "admin"
    THEN Respond("delete_user", cu, uid, None, 403, None) /\ UNCHANGED <<db, upl>>
    ELSE IF uid = cu
    THEN Respond("delete_user", cu, uid, None, 400, "self") /\ UNCHANGED <<db, upl>>
    ELSE delete_user_service(cu, uid)

\* ------------------------------------------------------------------ auth
\* The lifetime of an access token, in ticks of the clock
TokenLifetime == 2

\* The signed claims of a token: subject username, role and expiry
create_access_token(username, role) ==
    [sub |-> username, role |-> role, exp |-> now + TokenLifetime]

\* The account with this username and password, if any
authenticate_user(username, password) ==
    LET found == {u \in DOMAIN users :
                     /\ users[u].username = username
                     /\ users[u].password_hash = hash_password(password)}
    IN IF found = {} THEN None ELSE Some(CHOOSE u \in found : TRUE)

\* The account a correctly signed token authenticates: none once the token
\* has expired or no account has the subject's username
get_current_user(token) ==
    LET found == {u \in DOMAIN users : users[u].username = token.sub}
    IN IF token.exp <= now \/ found = {} THEN None
       ELSE Some(CHOOSE u \in found : TRUE)

\* POST /auth/login; an issued token is remembered with the id of the account
\* it was issued to (uid is not part of the token)
login(username, password) ==
    LET user == authenticate_user(username, password)
    IN IF user = None
       THEN /\ Reply("login", 0, 0, username, 401, None)
            /\ UNCHANGED <<db, upl, env>>
       ELSE LET access_token == create_access_token(username, users[user[1]].role)
            IN /\ tokens' = tokens \cup {[token |-> access_token, uid |-> user[1]]}
               /\ Reply("login", user[1], user[1], username, 200, access_token)
               /\ UNCHANGED <<db, upl, now, sess>>

\* Depends(get_current_user) found no account for the token: 401
unauthorized(op, token) ==
    Respond(op, 0, 0, token, 401, None) /\ UNCHANGED <<db, upl>>

\* GET /auth/me
get_current_user_info(token) ==
    LET cu == get_current_user(token)
    IN IF cu = None THEN unauthorized("auth_me", token)
       ELSE Respond("auth_me", cu[1], cu[1], None, 200, users[cu[1]])
            /\ UNCHANGED <<db, upl>>

\* ---------------------------------------------------------- file service
\* Path(file.filename).suffix.lower()
lower(suffix) ==
    CASE suffix = ".JPG" -> ".jpg"
      [] suffix = ".PNG" -> ".png"
      [] OTHER -> suffix

\* f"storage/images/{project_id}/{image_id}{file_extension}"; the storage
\* directory is Path("storage"), so the stored relative path names the file
file_path(pid, iid, suffix) == <<"storage", "images", pid, iid, lower(suffix)>>

\* A type check that accepts every file with a declared content type
is_image_typed(file) == file.content_type # None

\* file.content_type and file.content_type.startswith('image/'): a content
\* type "main/sub" is the record of its two parts (the empty one has main "")
is_image(file) == file.content_type # None /\ file.content_type[1].main = "image"

\* Index of the first file of the batch that passes the type check, or 0
first_image(batch) ==
    IF \E k \in 1..Len(batch) : is_image(batch[k])
    THEN CHOOSE k \in 1..Len(batch) :
           is_image(batch[k]) /\ \A j \in 1..(k - 1) : ~is_image(batch[j])
    ELSE 0

\* Identifiers uuid4 cannot return: those of stored or staged images and
\* those naming a file on disk
used_image_ids(staged) ==
    DOMAIN images \cup {staged[k].id : k \in 1..Len(staged)} \cup {f[4] : f \in files}

Image(pid, iid, file, cu) ==
    [project_id |-> pid,
     name |-> file.filename,
     file_path |-> file_path(pid, iid, file.filename.suffix),
     size |-> file.size,
     type |-> file.content_type[1],
     uploaded_by |-> cu,
     status |-> "pending",
     width |-> IF file.dims = None THEN None ELSE Some(file.dims[1]),
     height |-> IF file.dims = None THEN None ELSE Some(file.dims[2])]

\* Status of FileService._get_accessible_image: 404, 403 or 200
get_accessible_image_status(cu, iid) ==
    IF iid \notin DOMAIN images THEN 404
    ELSE IF users[cu].role # "admin" /\ <<images[iid].project_id, cu>> \notin assigned
    THEN 403
    ELSE 200

\* A response that lists the rejected files after the stored images
upload_response_with_failures(batch, staged) ==
    [j \in 1..Len(staged) |-> staged[j].id]
      \o SelectSeq([k \in 1..Len(batch) |->
                      [filename |-> batch[k].filename,
                       error |-> IF is_image(batch[k]) THEN "" ELSE "Not an image file"]],
                   LAMBDA f : f.error # "")

\* return uploaded_images: the stored images of the batch, the rejected
\* files are only logged
upload_response(batch, staged) == [j \in 1..Len(staged) |-> staged[j].id]

\* A failed commit that leaves the files of the batch on disk
cleanup_files_skipped(written) == files

\* The files on disk after the cleanup that follows a failed commit
cleanup_files(written) == files \ {written[j] : j \in 1..Len(written)}

\* The upload loop up to the next await: files failing the type check are
\* skipped; at the first image file an id is drawn and the file is opened
\* for writing (it now exists on disk) before file.read() is awaited.
\* With no image file left the loop ends and the batch is committed.
upload_continue(cu, pid, batch, rest, staged, written) ==
    LET k == first_image(rest) IN
    IF k # 0
    THEN LET iid == NewId(ImageIds, used_image_ids(staged))
         IN /\ files' = files \cup {file_path(pid, iid, rest[k].filename.suffix)}
            /\ upl' = Some([user |-> cu, project_id |-> pid, image_id |-> iid,
                            batch |-> batch, rest |-> SubSeq(rest, k, Len(rest)),
                            staged |-> staged, written |-> written])
            /\ Respond("upload_images", cu, pid, batch, 0, None)
            /\ UNCHANGED <<users, projects, assigned, images, annotations, exports>>
    ELSE IF staged = <<>>
    THEN /\ Respond("upload_images", cu, pid, batch, 200, upload_response(batch, staged))
         /\ upl' = None
         /\ UNCHANGED db
    ELSE IF pid \in DOMAIN projects /\ cu \in DOMAIN users
    THEN /\ images' = [i \in DOMAIN images \cup {staged[j].id : j \in 1..Len(staged)} |->
                         IF i \in DOMAIN images THEN images[i]
                         ELSE LET j == CHOOSE j \in 1..Len(staged) : staged[j].id = i
                              IN staged[j].row]
         /\ Respond("upload_images", cu, pid, batch, 200, upload_response(batch, staged))
         /\ upl' = None
         /\ UNCHANGED <<users, projects, assigned, annotations, files, exports>>
    ELSE \* the commit violates a foreign key: rollback, then cleanup
         /\ files' = cleanup_files(written)
         /\ Respond("upload_images", cu, pid, batch, 500, None)
         /\ upl' = None
         /\ UNCHANGED <<users, projects, assigned, images, annotations, exports>>

\* POST /projects/{id}/images/upload up to its first await
upload_images(cu, pid, batch) ==
    /\ upl = None
    /\ LET code == get_project_status(cu, pid) IN
       IF code # 200
       THEN Respond("upload_images", cu, pid, batch, code, None) /\ UNCHANGED <<db, upl>>
       ELSE /\ Cardinality({k \in 1..Len(batch) : is_image(batch[k])})
                 <= Cardinality(ImageIds \ used_image_ids(<<>>))
            /\ upload_continue(cu, pid, batch, batch, <<>>, <<>>)

\* The upload resumed after file.read(): the content is written and the
\* record staged, or the read failed and the file is only logged as failed
upload_resume(read_ok) ==
    /\ upl # None
    /\ LET u == upl[1]
           file == Head(u.rest)
           row == Image(u.project_id, u.image_id, file, u.user)
           staged == IF read_ok THEN Append(u.staged, [id |-> u.image_id, row |-> row])
                     ELSE u.staged
           written == IF read_ok THEN Append(u.written, row.file_path) ELSE u.written
       IN upload_continue(u.user, u.project_id, u.batch, Tail(u.rest), staged, written)

get_project_images(cu, pid) ==
    /\ LET code == get_project_status(cu, pid)
       IN Respond("get_project_images", cu, pid, None, code,
                  IF code = 200
                  THEN {i \in DOMAIN images : images[i].project_id = pid}
                  ELSE None)
    /\ UNCHANGED <<db, upl>>

download_image(cu, iid) ==
    /\ LET code == get_accessible_image_status(cu, iid) IN
       IF code # 200 THEN Respond("download_image", cu, iid, None, code, None)
       ELSE IF images[iid].file_path \notin files
       THEN Respond("download_image", cu, iid, None, 404, "disk")
       ELSE Respond("download_image", cu, iid, None, 200, images[iid].file_path)
    /\ UNCHANGED <<db, upl>>

update_image(cu, iid, upd) ==
    LET code == get_accessible_image_status(cu, iid) IN
    IF code # 200
    THEN Respond("update_image", cu, iid, upd, code, None) /\ UNCHANGED <<db, upl>>
    ELSE
      LET i0 == images[iid]
          i1 == IF upd.status # None THEN [i0 EXCEPT !.status = upd.status[1]] ELSE i0
          i2 == IF upd.width # None THEN [i1 EXCEPT !.width = upd.width] ELSE i1
          i3 == IF upd.height # None THEN [i2 EXCEPT !.height = upd.height] ELSE i2
      IN /\ images' = [images EXCEPT ![iid] = i3]
         /\ Respond("update_image", cu, iid, upd, 200, i3)
         /\ UNCHANGED <<users, projects, assigned, annotations, files, exports, upl>>

\* db.delete(image) without the cascade to the image's annotations
cascade_delete_image_keeps_rows(iid) ==
    /\ images' = Restrict(images, DOMAIN images \ {iid})
    /\ annotations' = annotations

\* db.delete(image): the ORM cascades to the image's annotations
cascade_delete_image(iid) ==
    /\ images' = Restrict(images, DOMAIN images \ {iid})
    /\ annotations' = [annotations EXCEPT ![iid] = <<>>]

\* delete_image with an unlink that raises when the file is missing: the
\* handler rolls back and answers with an internal error
delete_image_strict(cu, iid) ==
    LET code == get_accessible_image_status(cu, iid) IN
    IF code # 200
    THEN Respond("delete_image", cu, iid, None, code, None) /\ UNCHANGED <<db, upl>>
    ELSE IF images[iid].file_path \notin files
    THEN Respond("delete_image", cu, iid, None, 500, None) /\ UNCHANGED <<db, upl>>
    ELSE /\ files' = files \ {images[iid].file_path}
         /\ cascade_delete_image(iid)
         /\ Respond("delete_image", cu, iid, None, 200, None)
         /\ UNCHANGED <<users, projects, assigned, exports, upl>>

delete_image(cu, iid) ==
    LET code == get_accessible_image_status(cu, iid) IN
    IF code # 200
    THEN Respond("delete_image", cu, iid, None, code, None) /\ UNCHANGED <<db, upl>>
    ELSE /\ files' = files \ {images[iid].file_path}
         /\ cascade_delete_image(iid)
         /\ Respond("delete_image", cu, iid, None, 200, None)
         /\ UNCHANGED <<users, projects, assigned, exports, upl>>

Annotation(ann_data, cu) ==
    [class_id |-> ann_data.class_id,
     class_name |-> ann_data.class_name,
     color |-> ann_data.color,
     x |-> ann_data.x,
     y |-> ann_data.y,
     width |-> ann_data.width,
     height |-> ann_data.height,
     created_by |-> cu]

\* save_annotations without the delete of the existing rows
save_annotations_keeps_old(cu, iid, anns) ==
    IF iid \notin DOMAIN images
    THEN Respond("save_annotations", cu, iid, anns, 404, None) /\ UNCHANGED <<db, upl>>
    ELSE LET db_annotations == [k \in 1..Len(anns) |-> Annotation(anns[k], cu)]
         IN /\ annotations' = [annotations EXCEPT ![iid] = @ \o db_annotations]
            /\ images' = IF anns # <<>>
                         THEN [images EXCEPT ![iid].status = "completed"]
                         ELSE images
            /\ Respond("save_annotations", cu, iid, anns, 200, db_annotations)
            /\ UNCHANGED <<users, projects, assigned, files, exports, upl>>

\* save_annotations that marks the image completed whatever was submitted
save_annotations_always_completed(cu, iid, anns) ==
    IF iid \notin DOMAIN images
    THEN Respond("save_annotations", cu, iid, anns, 404, None) /\ UNCHANGED <<db, upl>>
    ELSE LET db_annotations == [k \in 1..Len(anns) |-> Annotation(anns[k], cu)]
         IN /\ annotations' = [annotations EXCEPT ![iid] = db_annotations]
            /\ images' = [images EXCEPT ![iid].status = "completed"]
            /\ Respond("save_annotations", cu, iid, anns, 200, db_annotations)
            /\ UNCHANGED <<users, projects, assigned, files, exports, upl>>

save_annotations(cu, iid, anns) ==
    IF iid \notin DOMAIN images
    THEN Respond("save_annotations", cu, iid, anns, 404, None) /\ UNCHANGED <<db, upl>>
    ELSE LET db_annotations == [k \in 1..Len(anns) |-> Annotation(anns[k], cu)]
         IN /\ annotations' = [annotations EXCEPT ![iid] = db_annotations]
            /\ images' = IF anns # <<>>
                         THEN [images EXCEPT ![iid].status = "completed"]
                         ELSE images
            /\ Respond("save_annotations", cu, iid, anns, 200, db_annotations)
            /\ UNCHANGED <<users, projects, assigned, files, exports, upl>>

get_annotations(cu, iid) ==
    /\ LET code == get_accessible_image_status(cu, iid)
       IN Respond("get_annotations", cu, iid, None, code,
                  IF code = 200 THEN annotations[iid] ELSE None)
    /\ UNCHANGED <<db, upl>>

\* ----------------------------------------------- requests in own sessions
\* A request served concurrently with others runs in the session get_db
\* opens for it; sess maps the open and the finished requests to their
\* position (pc), their input and what their session has done so far.
Range(seq) == {seq[k] : k \in 1..Len(seq)}

\* The SQLite engine admits one writing transaction at a time: the connection
\* takes the write lock with its first DELETE, INSERT or UPDATE and keeps it
\* until commit or rollback. A second writer waits for the lock; no service
\* holds it across an await, so the wait ends before the busy timeout
writing(s) == s \in DOMAIN sess /\ sess[s].pc = "writing"

\* An engine that lets several transactions write at once
write_lock_free_always(s) == TRUE

write_lock_free(s) == \A o \in DOMAIN sess \ {s} : ~writing(o)

\* A step of session s that answers its request
Finish(s, code, body, fields) ==
    /\ sess' = [sess EXCEPT ![s] = fields @@ [@ EXCEPT !.pc = "done", !.code = code]]
    /\ Reply(sess[s].op, sess[s].cu, sess[s].target, sess[s].req, code, body)

\* save_annotations up to its first write: the session is opened and the
\* image row is selected
save_open(s, cu, iid, anns) ==
    /\ s \notin DOMAIN sess
    /\ sess' = sess @@ (s :> [op |-> "save_annotations", cu |-> cu, target |-> iid,
                              req |-> anns, code |-> 0, deleted |-> {},
                              pc |-> IF iid \in DOMAIN images THEN "selected"
                                     ELSE "missing"])
    /\ UNCHANGED <<db, upl, resp, tokens, now>>

\* The image row was not found
save_missing(s) ==
    /\ s \in DOMAIN sess /\ sess[s].op = "save_annotations" /\ sess[s].pc = "missing"
    /\ Finish(s, 404, None, <<>>)
    /\ UNCHANGED <<db, upl, tokens, now>>

\* The bulk DELETE of the image's annotation rows: it begins the transaction
\* and removes the rows committed at that time
save_delete(s) ==
    /\ s \in DOMAIN sess /\ sess[s].op = "save_annotations" /\ sess[s].pc = "selected"
    /\ write_lock_free(s)
    /\ sess' = [sess EXCEPT ![s].pc = "writing",
                            ![s].deleted = Range(annotations[sess[s].target])]
    /\ UNCHANGED <<db, upl, resp, tokens, now>>

\* The flush of the new rows and of the image status, and the commit
save_commit(s) ==
    /\ s \in DOMAIN sess /\ sess[s].op = "save_annotations" /\ sess[s].pc = "writing"
    /\ LET iid == sess[s].target
           anns == sess[s].req
           db_annotations == [k \in 1..Len(anns) |-> Annotation(anns[k], sess[s].cu)]
           kept == SelectSeq(annotations[iid], LAMBDA row : row \notin sess[s].deleted)
       IN /\ annotations' = [annotations EXCEPT ![iid] = kept \o db_annotations]
          /\ images' = IF anns # <<>>
                       THEN [images EXCEPT ![iid].status = "completed"]
                       ELSE images
          /\ Finish(s, 200, db_annotations,
                    [concurrent |-> {o \in DOMAIN sess \ {s} : sess[o].pc # "done"}])
    /\ UNCHANGED <<users, projects, assigned, files, exports, upl, tokens, now>>

\* The UNIQUE constraint of users.username left out of the table
username_unconstrained(username) == FALSE

\* users.username is UNIQUE: an INSERT of a committed username fails
username_taken(username) == \E u \in DOMAIN users : users[u].username = username

\* create_user up to its commit: the session is opened and the existence
\* check is made
create_open(s, cu, data) ==
    /\ s \notin DOMAIN sess
    /\ sess' = sess @@ (s :> [op |-> "register", cu |-> cu, target |-> 0,
                              req |-> data, code |-> 0, via |-> "",
                              pc |-> IF \E u \in DOMAIN users :
                                           users[u].username = data.username
                                     THEN "exists" ELSE "checked"])
    /\ UNCHANGED <<db, upl, resp, tokens, now>>

\* The existence check found the username
create_exists(s) ==
    /\ s \in DOMAIN sess /\ sess[s].op = "register" /\ sess[s].pc = "exists"
    /\ Finish(s, 400, "Username already exists", [via |-> "check"])
    /\ UNCHANGED <<db, upl, tokens, now>>

\* db.commit() flushes the INSERT: it takes the write lock, and fails with
\* IntegrityError when the username has been committed meanwhile; the
\* handler rolls back and answers bad-request
create_insert(s) ==
    /\ s \in DOMAIN sess /\ sess[s].op = "register" /\ sess[s].pc = "checked"
    /\ write_lock_free(s)
    /\ IF username_taken(sess[s].req.username)
       THEN Finish(s, 400, "Username already exists", [via |-> "IntegrityError"])
       ELSE sess' = [sess EXCEPT ![s].pc = "writing"] /\ UNCHANGED resp
    /\ UNCHANGED <<db, upl, tokens, now>>

\* The COMMIT of the inserted row
create_commit(s) ==
    /\ s \in DOMAIN sess /\ sess[s].op = "register" /\ sess[s].pc = "writing"
    /\ UserIds \ used_user_ids # {}
    /\ LET data == sess[s].req
           uid == NewId(UserIds, used_user_ids)
           user == User(data.username, data.password, data.role)
       IN /\ users' = Put(users, uid, user)
          /\ sess' = [sess EXCEPT ![s].pc = "done", ![s].code = 200, ![s].target = uid]
          /\ Reply("register", sess[s].cu, uid, data, 200, user)
    /\ UNCHANGED <<projects, assigned, images, annotations, files, exports, upl, tokens, now>>

\* n/d printed by cutting the decimals after the sixth instead of rounding
fmt6_truncate(n, d) == (n * 1000000) \div d

\* n/d printed with six decimals, as the integer number of millionths
\* (round-half-even, as the float formatting of an exact tie)
fmt6(n, d) ==
    LET N == n * 1000000
        q == N \div d
        r == N - q * d
    IN IF 2 * r < d THEN q
       ELSE IF 2 * r > d THEN q + 1
       ELSE IF q % 2 = 0 THEN q ELSE q + 1

\* The YOLO line with the top-left corner written where the center belongs
yolo_line_corner(ann, W, H) ==
    <<ann.class_id,
      fmt6(ann.x, W),
      fmt6(ann.y, H),
      fmt6(ann.width, W),
      fmt6(ann.height, H)>>

\* The YOLO line with every value clamped to the unit interval
yolo_line_clamped(ann, W, H) ==
    LET clamp(v) == IF v < 0 THEN 0 ELSE IF v > 1000000 THEN 1000000 ELSE v
    IN <<ann.class_id,
         clamp(fmt6(2 * ann.x + ann.width, 2 * W)),
         clamp(fmt6(2 * ann.y + ann.height, 2 * H)),
         clamp(fmt6(ann.width, W)),
         clamp(fmt6(ann.height, H))>>

yolo_line(ann, W, H) ==
    <<ann.class_id,
      fmt6(2 * ann.x + ann.width, 2 * W),
      fmt6(2 * ann.y + ann.height, 2 * H),
      fmt6(ann.width, W),
      fmt6(ann.height, H)>>

\* The export loop writing a line of zeros for an annotation whose image
\* has no usable size, instead of leaving the annotation out
yolo_lines_placeholder(anns, image) ==
    [k \in 1..Len(anns) |->
       IF TruthyInt(image.width) /\ TruthyInt(image.height)
       THEN yolo_line(anns[k], image.width[1], image.height[1])
       ELSE <<anns[k].class_id, 0, 0, 0, 0>>]

RECURSIVE yolo_lines(_, _)
yolo_lines(anns, image) ==
    IF anns = <<>> THEN <<>>
    ELSE IF TruthyInt(image.width) /\ TruthyInt(image.height)
    THEN <<yolo_line(Head(anns), image.width[1], image.height[1])>>
           \o yolo_lines(Tail(anns), image)
    ELSE yolo_lines(Tail(anns), image)

\* annotations_dir / project_id / f"{Path(image.name).stem}.txt"
annotation_file(image) == <<"storage", "annotations", image.project_id, image.name.stem, ".txt">>

\* download_annotations without the test for an empty annotation set: an
\* empty file is written and returned
download_annotations_empty_file(cu, iid) ==
    LET code == get_accessible_image_status(cu, iid) IN
    IF code # 200
    THEN Respond("download_annotations", cu, iid, None, code, None) /\ UNCHANGED <<db, upl>>
    ELSE LET content == yolo_lines(annotations[iid], images[iid])
             path == annotation_file(images[iid])
         IN /\ exports' = Put(exports, path, content)
            /\ Respond("download_annotations", cu, iid, None, 200, path)
            /\ UNCHANGED <<users, projects, assigned, images, annotations, files, upl>>

download_annotations(cu, iid) ==
    LET code == get_accessible_image_status(cu, iid) IN
    IF code # 200
    THEN Respond("download_annotations", cu, iid, None, code, None) /\ UNCHANGED <<db, upl>>
    ELSE IF annotations[iid] = <<>>
    THEN Respond("download_annotations", cu, iid, None, 404, "none") /\ UNCHANGED <<db, upl>>
    ELSE LET content == yolo_lines(annotations[iid], images[iid])
             path == annotation_file(images[iid])
         IN /\ exports' = Put(exports, path, content)
            /\ Respond("download_annotations", cu, iid, None, 200, path)
            /\ UNCHANGED <<users, projects, assigned, images, annotations, files, upl>>

\* download_annotations up to its return: the handler checks the access,
\* writes the export file and returns a FileResponse naming its path
export_write(s, cu, iid) ==
    /\ s \notin DOMAIN sess
    /\ LET code == get_accessible_image_status(cu, iid)
           request == [op |-> "download_annotations", cu |-> cu, target |-> iid,
                       req |-> None, code |-> 0, path |-> None, pc |-> "failed"]
       IN IF code # 200
          THEN sess' = sess @@ (s :> [request EXCEPT !.code = code])
               /\ UNCHANGED exports
          ELSE IF annotations[iid] = <<>>
          THEN sess' = sess @@ (s :> [request EXCEPT !.code = 404])
               /\ UNCHANGED exports
          ELSE LET path == annotation_file(images[iid])
               IN /\ exports' = Put(exports, path, yolo_lines(annotations[iid], images[iid]))
                  /\ sess' = sess @@ (s :> [request EXCEPT !.path = Some(path),
                                                           !.pc = "written"])
    /\ UNCHANGED <<users, projects, assigned, images, annotations, files, upl, resp,
                   tokens, now>>

\* The HTTPException of the handler is answered
export_fail(s) ==
    /\ s \in DOMAIN sess /\ sess[s].op = "download_annotations" /\ sess[s].pc = "failed"
    /\ Finish(s, sess[s].code, None, [body |-> None])
    /\ UNCHANGED <<db, upl, tokens, now>>

\* The FileResponse is sent: the file at the path is read now
export_send(s) ==
    /\ s \in DOMAIN sess /\ sess[s].op = "download_annotations" /\ sess[s].pc = "written"
    /\ Finish(s, 200, exports[sess[s].path[1]], [body |-> Some(exports[sess[s].path[1]])])
    /\ UNCHANGED <<db, upl, tokens, now>>

\* ------------------------------------------------------------ input pools
Boxes ==
    {[class_id |-> 0, class_name |-> "person", color |-> "#ff0000",
      x |-> 10, y |-> 20, width |-> 30, height |-> 40],
     [class_id |-> 1, class_name |-> "car", color |-> "#00ff00",
      x |-> 50, y |-> 60, width |-> 25, height |-> 35]}

SeqsUpTo(S, n) == UNION {[1..k -> S] : k \in 0..n}

AnnotationLists == SeqsUpTo(Boxes, MaxBoxes)

ImageFile ==
    [filename |-> [stem |-> "a", suffix |-> ".JPG"],
     content_type |-> Some([main |-> "image", sub |-> "jpeg"]),
     size |-> 162, dims |-> <<100, 100>>]

TextFile ==
    [filename |-> [stem |-> "notes", suffix |-> ".txt"],
     content_type |-> Some([main |-> "text", sub |-> "plain"]),
     size |-> 5, dims |-> None]

Batches == SeqsUpTo({ImageFile, TextFile}, MaxBatch)

ImageUpdates == {[status |-> Some("in-progress"), width |-> None, height |-> None]}

\* ---------------------------------------------------------- initial states
NoResponse == [op |-> "none", user |-> 0, target |-> 0, req |-> None,
               code |-> 0, body |-> None]

\* No token has been issued and no request is being served
NoSessions == tokens = {} /\ now = 0 /\ sess = <<>>

\* The users init_database creates: admin-1 and annotator-1
DefaultUsers ==
    (1 :> User("tcci", "tcc", "admin")) @@ (2 :> User("tcc", "tcc", "annotator"))

\* init_database: the two default users, nothing else
InitDatabase ==
    /\ users = DefaultUsers
    /\ projects = <<>>
    /\ assigned = {}
    /\ images = <<>>
    /\ annotations = [i \in ImageIds |-> <<>>]
    /\ files = {}
    /\ exports = <<>>
    /\ upl = None
    /\ resp = NoResponse
    /\ NoSessions

\* ------------------------------------------------------------- requests
\* Every request is issued by an authenticated user: current_user is a row
\* of the users table
Admins == {u \in DOMAIN users : users[u].role = "admin"}
Annotators == {u \in DOMAIN users : users[u].role = "annotator"}

ProjectData == [name : {"Cars"}, class_names : {<<"object">>}, class_definitions : ClassDefLists]

\* The administrator's requests
AdminCreateProject == \E cu \in Admins, data \in ProjectData : create_project(cu, data)
AdminDeleteProject == \E cu \in Admins, pid \in ProjectIds : delete_project(cu, pid)
AdminUploadImages == \E cu \in Admins, pid \in ProjectIds, batch \in Batches :
                        upload_images(cu, pid, batch)
UploadResume == upload_resume(TRUE)
AdminUpdateImage == \E cu \in Admins, iid \in ImageIds, upd \in ImageUpdates :
                       update_image(cu, iid, upd)
AdminDeleteImage == \E cu \in Admins, iid \in ImageIds : delete_image(cu, iid)
AdminSaveAnnotations == \E cu \in Admins, iid \in ImageIds, anns \in AnnotationLists :
                           save_annotations(cu, iid, anns)
AdminGetAnnotations == \E cu \in Admins, iid \in ImageIds : get_annotations(cu, iid)

\* ------------------------------------------------------------------------
\* Spec: the administrator creates and deletes projects, uploads, updates
\* and deletes images and saves annotations, in any interleaving with an
\* upload that is suspended at its await.
Init == InitDatabase

Next ==
    \/ AdminCreateProject
    \/ AdminDeleteProject
    \/ AdminUploadImages
    \/ UploadResume
    \/ AdminUpdateImage
    \/ AdminDeleteImage
    \/ AdminSaveAnnotations
    \/ AdminGetAnnotations

Spec == Init /\ [][Next]_vars

\* The boxes get_annotations returns for an image: the stored rows without
\* their created_by column
box_of(row) ==
    [class_id |-> row.class_id, class_name |-> row.class_name, color |-> row.color,
     x |-> row.x, y |-> row.y, width |-> row.width, height |-> row.height]
boxes_of(rows) == [k \in 1..Len(rows) |-> box_of(rows[k])]

SaveSucceeded == resp.op = "save_annotations" /\ resp.code = 200

\* C3: after a successful save_annotations(image, S), get_annotations(image)
\* returns exactly the boxes of S, in number and in every field, whatever
\* the image held before, and the annotations of every other image are
\* unchanged.
C3_SaveReplaces ==
    [][/\ SaveSucceeded' =>
            /\ boxes_of(annotations'[resp'.target]) = resp'.req
            /\ \A j \in ImageIds \ {resp'.target} : annotations'[j] = annotations[j]
       /\ (resp'.op = "get_annotations" /\ resp'.code = 200) =>
            /\ resp'.body = annotations[resp'.target]
            /\ annotations' = annotations]_vars

\* A save of a non-empty list has succeeded on an image while another image
\* holds different annotations
C3_Witness ==
    /\ SaveSucceeded
    /\ Len(resp.req) = MaxBoxes
    /\ \E j \in DOMAIN images \ {resp.target} :
          annotations[j] # <<>> /\ annotations[j] # annotations[resp.target]

\* C4: a successful save_annotations sets the image's status to completed
\* when the submitted list is non-empty and leaves it as it was when the
\* list is empty; no other field of the image, and no other image, changes.
C4_SaveStatus ==
    [][SaveSucceeded' =>
         /\ resp'.target \in DOMAIN images
         /\ images' = [images EXCEPT ![resp'.target].status =
                          IF resp'.req # <<>> THEN "completed" ELSE @]]_vars

\* An empty list was saved on an image that is in progress
C4_Witness ==
    /\ SaveSucceeded
    /\ resp.req = <<>>
    /\ images[resp.target].status = "in-progress"

DeleteProjectSucceeded == resp.op = "delete_project" /\ resp.code = 200

\* C5: after a successful delete_project(P), P does not exist, no image of P
\* and no annotation of such an image remains, and every other project,
\* image and annotation is unchanged.
C5_DeleteProjectCascades ==
    [][DeleteProjectSucceeded' =>
         LET P == resp'.target
             gone == {i \in DOMAIN images : images[i].project_id = P}
         IN /\ P \in DOMAIN projects /\ P \notin DOMAIN projects'
            /\ \A i \in DOMAIN images' : images'[i].project_id # P
            /\ \A i \in gone : annotations'[i] = <<>>
            /\ projects' = Restrict(projects, DOMAIN projects \ {P})
            /\ images' = Restrict(images, DOMAIN images \ gone)
            /\ \A i \in ImageIds \ gone : annotations'[i] = annotations[i]]_vars

\* A project that had an uploaded image (its file is still on disk) was
\* deleted while another project keeps an annotated image
C5_Witness ==
    /\ DeleteProjectSucceeded
    /\ \E f \in files : f[3] = resp.target
    /\ \E i \in DOMAIN images : annotations[i] # <<>>

\* Every annotation row references a stored image and every image a stored
\* project
ReferentialIntegrity ==
    /\ \A i \in ImageIds : annotations[i] # <<>> => i \in DOMAIN images
    /\ \A i \in DOMAIN images : images[i].project_id \in DOMAIN projects

\* C6: in every reachable state, under any interleaving of upload_images,
\* save_annotations, delete_image and delete_project, every annotation's
\* image and every image's project exist; a successful delete_image removes
\* the image and exactly the annotations of that image.
C6_ReferencesExist ==
    /\ []ReferentialIntegrity
    /\ [][(resp'.op = "delete_image" /\ resp'.code = 200) =>
            /\ images' = Restrict(images, DOMAIN images \ {resp'.target})
            /\ annotations' = [annotations EXCEPT ![resp'.target] = <<>>]]_vars

\* An upload suspended at its await lost its project to a delete_project and
\* its commit was refused
C6_Witness ==
    /\ resp.op = "upload_images" /\ resp.code = 500
    /\ resp.target \notin DOMAIN projects

\* ------------------------------------------------------------------------
\* SpecScoped: the administrator sets up projects, images and annotations;
\* the annotators, assigned to none of them, issue the project-scoped
\* requests.
ScopedCreateProject == \E cu \in Admins, data \in ProjectData : create_project(cu, data)
ScopedAdminUpload == \E cu \in Admins, pid \in ProjectIds : upload_images(cu, pid, <<ImageFile>>)
ScopedUploadResume == upload_resume(TRUE)
ScopedAdminSave == \E cu \in Admins, iid \in ImageIds, anns \in AnnotationLists :
                      save_annotations(cu, iid, anns)
ScopedGetProject == \E cu \in Annotators, pid \in ProjectIds : get_project(cu, pid)
ScopedGetProjectImages == \E cu \in Annotators, pid \in ProjectIds : get_project_images(cu, pid)
ScopedUploadImages == \E cu \in Annotators, pid \in ProjectIds : upload_images(cu, pid, <<ImageFile>>)
ScopedDownloadImage == \E cu \in Annotators, iid \in ImageIds : download_image(cu, iid)
ScopedUpdateImage == \E cu \in Annotators, iid \in ImageIds, upd \in ImageUpdates :
                        update_image(cu, iid, upd)
ScopedDeleteImage == \E cu \in Annotators, iid \in ImageIds : delete_image(cu, iid)
ScopedSaveAnnotations == \E cu \in Annotators, iid \in ImageIds, anns \in AnnotationLists :
                            save_annotations(cu, iid, anns)
ScopedGetAnnotations == \E cu \in Annotators, iid \in ImageIds : get_annotations(cu, iid)
ScopedDownloadAnnotations == \E cu \in Annotators, iid \in ImageIds : download_annotations(cu, iid)

NextScoped ==
    \/ ScopedCreateProject
    \/ ScopedAdminUpload
    \/ ScopedUploadResume
    \/ ScopedAdminSave
    \/ ScopedGetProject
    \/ ScopedGetProjectImages
    \/ ScopedUploadImages
    \/ ScopedDownloadImage
    \/ ScopedUpdateImage
    \/ ScopedDeleteImage
    \/ ScopedSaveAnnotations
    \/ ScopedGetAnnotations
    \/ ScopedDownloadAnnotations

SpecScoped == InitDatabase /\ [][NextScoped]_vars

ProjectScopedOps == {"get_project", "get_project_images", "upload_images"}
ImageScopedOps == {"download_image", "update_image", "delete_image", "save_annotations",
                   "get_annotations", "download_annotations"}

\* u is an annotator who neither created project p nor is assigned to it
Outsider(u, p) ==
    /\ u \in DOMAIN users /\ users[u].role = "annotator"
    /\ p \in DOMAIN projects
    /\ projects[p].created_by # u
    /\ <<p, u>> \notin assigned

\* C1: every project-scoped operation invoked by an annotator who is neither
\* the creator of the owning project nor assigned to it returns forbidden and
\* changes no stored state; in particular save_annotations by such a user
\* neither replaces the image's annotations nor changes its status.
C1_OutsiderForbidden ==
    [][/\ (resp'.op \in ProjectScopedOps /\ Outsider(resp'.user, resp'.target))
            => (resp'.code = 403 /\ db' = db)
       /\ (resp'.op \in ImageScopedOps /\ resp'.target \in DOMAIN images
             /\ Outsider(resp'.user, images[resp'.target].project_id))
            => (resp'.code = 403 /\ db' = db)]_vars

\* ------------------------------------------------------------------------
\* SpecProjects: every user issues the project and assignment requests. The
\* database starts as init_database leaves it, or as the test fixtures seed
\* it: one project row inserted directly, with or without an assignment row.
FixtureProject(creator) ==
    [name |-> "Cars",
     created_by |-> creator,
     class_names |-> <<"object">>,
     class_definitions |-> <<>>,
     directory_structure |-> directory_structure("Cars")]

InitFixture ==
    /\ users = DefaultUsers
    /\ \E creator \in DOMAIN DefaultUsers : projects = (1 :> FixtureProject(creator))
    /\ assigned \in {{}, {<<1, 2>>}}
    /\ images = <<>>
    /\ annotations = [i \in ImageIds |-> <<>>]
    /\ files = {}
    /\ exports = <<>>
    /\ upl = None
    /\ resp = NoResponse
    /\ NoSessions

InitProjects == InitDatabase \/ InitFixture

ProjectUpdates ==
    [name : {None, Some("Birds")}, class_names : {None}, class_definitions : {None}]

CreateProject == \E cu \in DOMAIN users, data \in ProjectData : create_project(cu, data)
GetProject == \E cu \in DOMAIN users, pid \in ProjectIds : get_project(cu, pid)
GetProjects == \E cu \in DOMAIN users : get_projects(cu)
UpdateProject == \E cu \in DOMAIN users, pid \in ProjectIds, upd \in ProjectUpdates :
                    update_project(cu, pid, upd)
DeleteProject == \E cu \in DOMAIN users, pid \in ProjectIds : delete_project(cu, pid)
AssignUser == \E cu \in DOMAIN users, pid \in ProjectIds, uid \in UserIds :
                 assign_user_to_project(cu, pid, uid)
UnassignUser == \E cu \in DOMAIN users, pid \in ProjectIds, uid \in UserIds :
                   unassign_user_from_project(cu, pid, uid)

NextProjects ==
    \/ CreateProject
    \/ GetProject
    \/ GetProjects
    \/ UpdateProject
    \/ DeleteProject
    \/ AssignUser
    \/ UnassignUser

SpecProjects == InitProjects /\ [][NextProjects]_vars

IsAdmin(u) == users[u].role = "admin"
IsCreator(u, p) == projects[p].created_by = u
IsAssigned(u, p) == <<p, u>> \in assigned

\* C2: an annotator is authorized for project P (get_project succeeds and P
\* is in the annotator's project list) iff the annotator created P or is
\* assigned to P, also when the creator has no assignment row; an admin is
\* always authorized; a user who is not authorized gets forbidden.
C2_CreatorOrAssigned ==
    [][/\ (resp'.op = "get_project" /\ resp'.target \in DOMAIN projects)
            => resp'.code = IF \/ IsAdmin(resp'.user)
                               \/ IsCreator(resp'.user, resp'.target)
                               \/ IsAssigned(resp'.user, resp'.target)
                            THEN 200 ELSE 403
       /\ resp'.op = "get_projects"
            => resp'.body = {p \in DOMAIN projects :
                               \/ IsAdmin(resp'.user)
                               \/ IsCreator(resp'.user, p)
                               \/ IsAssigned(resp'.user, p)}]_vars

\* C7: update_project and delete_project on an existing project succeed iff
\* the caller is an admin or the project's creator; any other caller,
\* assigned or not, gets forbidden and the project is unchanged.
C7_CreatorOrAdminWrites ==
    [][(resp'.op \in {"update_project", "delete_project"}
          /\ resp'.target \in DOMAIN projects)
         => IF IsAdmin(resp'.user) \/ IsCreator(resp'.user, resp'.target)
            THEN resp'.code = 200
            ELSE resp'.code = 403 /\ projects' = projects]_vars

\* The assignment service was entered: the route's admin gate let the
\* request through
AssignServed == resp.op = "assign_user" /\ resp.code # 403
UnassignServed == resp.op = "unassign_user" /\ resp.code # 403

\* C8: assigning an already-assigned user succeeds with assigned=true and
\* leaves the assignment set unchanged, and a first assignment adds exactly
\* the pair, so a repeated assign changes nothing more; unassigning a user
\* who is not assigned (and is not the creator) succeeds with assigned=false
\* and leaves the set unchanged, and an unassignment removes exactly the
\* pair.
C8_AssignIdempotent ==
    [][/\ (AssignServed' /\ resp'.target \in assigned)
            => (resp'.code = 200 /\ resp'.body.assigned = TRUE /\ assigned' = assigned)
       /\ (AssignServed' /\ resp'.code = 200)
            => (resp'.body.assigned = TRUE /\ assigned' = assigned \cup {resp'.target})
       /\ (UnassignServed' /\ resp'.target[1] \in DOMAIN projects
             /\ resp'.target \notin assigned
             /\ ~IsCreator(resp'.target[2], resp'.target[1]))
            => (resp'.code = 200 /\ resp'.body.assigned = FALSE /\ assigned' = assigned)
       /\ (UnassignServed' /\ resp'.code = 200)
            => (resp'.body.assigned = FALSE /\ assigned' = assigned \ {resp'.target})]_vars

\* An already-assigned user was assigned once more
C8_Witness ==
    /\ AssignServed /\ resp.code = 200
    /\ resp.body.message = "User already assigned to project"
    /\ resp.target[2] # projects[resp.target[1]].created_by

\* C9: unassign_user(P, U) with U the creator of P is rejected with
\* bad-request, whether or not U is assigned to P, and the assignment set is
\* unchanged.
C9_CreatorStaysAssigned ==
    [][(UnassignServed' /\ resp'.target[1] \in DOMAIN projects
          /\ IsCreator(resp'.target[2], resp'.target[1]))
         => (resp'.code = 400 /\ assigned' = assigned)]_vars

\* The unassignment of a creator who has no assignment row was rejected
C9_Witness ==
    /\ UnassignServed /\ resp.code = 400
    /\ resp.target[1] \in DOMAIN projects
    /\ resp.target \notin assigned

\* ------------------------------------------------------------------------
\* SpecUsers: every user issues the user-management requests.
UserData == [username : Usernames, password : {"pw2"}, role : Roles]

UserUpdates ==
    [username : {None, Some("new")},
     password : {None, Some("pw2")},
     role : {None} \cup {Some(r) : r \in Roles}]

Register == \E cu \in DOMAIN users, data \in UserData : register(cu, data)
GetUsers == \E cu \in DOMAIN users : get_users(cu)
UpdateUser == \E cu \in DOMAIN users, uid \in UserIds, upd \in UserUpdates :
                 update_user(cu, uid, upd)
DeleteUser == \E cu \in DOMAIN users, uid \in UserIds : delete_user(cu, uid)

NextUsers ==
    \/ Register
    \/ GetUsers
    \/ UpdateUser
    \/ DeleteUser

SpecUsers == InitDatabase /\ [][NextUsers]_vars

SelfDelete == resp.op = "delete_user" /\ resp.target = resp.user

\* C10 as stated: a delete-user request whose target is the caller's own id
\* is rejected with bad-request and the caller's account still exists.
C10_SelfDeleteBadRequest ==
    [][SelfDelete' => (resp'.code = 400 /\ resp'.user \in DOMAIN users')]_vars

\* C10: a delete-user request whose target is the caller's own id is
\* rejected, with bad-request when the caller is an admin and with forbidden
\* when the caller is not, and the users table is unchanged; no request
\* issued by a user removes that user's own account.
C10_SelfDeleteRejected ==
    [][/\ SelfDelete' => /\ resp'.code = IF users[resp'.user].role = "admin"
                                         THEN 400 ELSE 403
                         /\ users' = users
       /\ resp'.user \in DOMAIN users => resp'.user \in DOMAIN users']_vars

\* An admin's request to delete their own account was rejected while a
\* second admin is registered
C10_Witness ==
    /\ SelfDelete /\ resp.code = 400
    /\ \E u \in DOMAIN users \ {resp.user} : users[u].role = "admin"

\* A register request that passed the admin gate and names a taken username
DuplicateRegister ==
    /\ resp'.op = "register"
    /\ users[resp'.user].role = "admin"
    /\ \E u \in DOMAIN users : users[u].username = resp'.req.username

\* An update-user request that passed the admin gate and renames an existing
\* user to the username of another user
DuplicateRename ==
    /\ resp'.op = "update_user"
    /\ users[resp'.user].role = "admin"
    /\ resp'.target \in DOMAIN users
    /\ resp'.req.username # None
    /\ \E u \in DOMAIN users \ {resp'.target} :
           users[u].username = resp'.req.username[1]

\* C21: no two users share a username; creating a user with a taken
\* username and renaming a user to another user's username are rejected
\* with bad-request 'Username already exists' and leave the users table
\* (password hashes and roles included) unchanged.
C21_UniqueUsernames ==
    /\ [](\A u, v \in DOMAIN users :
             users[u].username = users[v].username => u = v)
    /\ [][(DuplicateRegister \/ DuplicateRename) =>
             /\ resp'.code = 400
             /\ resp'.body = "Username already exists"
             /\ users' = users]_vars

\* A rename of one user to the username of another, sent together with a
\* new password and a new role, was rejected
C21_Witness ==
    /\ resp.op = "update_user" /\ resp.code = 400
    /\ resp.body = "Username already exists"
    /\ resp.req.password # None /\ resp.req.role # None
    /\ \E u \in DOMAIN users \ {resp.target} : users[u].username = resp.req.username[1]

\* C26: after any sequence of register, update-user and delete-user
\* requests on a database that had an admin account, at least one account
\* with role admin exists.
C26_AdminRemains == \E u \in DOMAIN users : users[u].role = "admin"

\* ------------------------------------------------------------------------
\* SpecAdmin: every user issues the admin-gated requests (account management
\* and project assignment), on a database seeded with or without a project.
NewUserData == [username : {"new"}, password : {"pw2"}, role : Roles]
RoleUpdates == [username : {None}, password : {None}, role : {Some(r) : r \in Roles}]

GatedRegister == \E cu \in DOMAIN users, data \in NewUserData : register(cu, data)
GatedGetUsers == \E cu \in DOMAIN users : get_users(cu)
GatedUpdateUser == \E cu \in DOMAIN users, uid \in UserIds, upd \in RoleUpdates :
                      update_user(cu, uid, upd)
GatedDeleteUser == \E cu \in DOMAIN users, uid \in UserIds : delete_user(cu, uid)
GatedAssignUser == \E cu \in DOMAIN users, pid \in ProjectIds, uid \in UserIds :
                      assign_user_to_project(cu, pid, uid)
GatedUnassignUser == \E cu \in DOMAIN users, pid \in ProjectIds, uid \in UserIds :
                        unassign_user_from_project(cu, pid, uid)

NextAdmin ==
    \/ GatedRegister
    \/ GatedGetUsers
    \/ GatedUpdateUser
    \/ GatedDeleteUser
    \/ GatedAssignUser
    \/ GatedUnassignUser

SpecAdmin == InitProjects /\ [][NextAdmin]_vars

AdminGatedOps == {"register", "get_users", "update_user", "delete_user",
                  "assign_user", "unassign_user"}

\* C11: register, list users, update user, delete user, assign and unassign,
\* invoked by a caller who is not an admin, return forbidden whatever the
\* target (existing or not) and leave the users table and the assignment
\* sets unchanged.
C11_AdminGate ==
    [][(resp'.op \in AdminGatedOps /\ ~IsAdmin(resp'.user))
         => (resp'.code = 403 /\ users' = users /\ assigned' = assigned)]_vars

\* A non-admin was refused an assignment that names a user who does not
\* exist
C11_Witness ==
    /\ resp.op = "assign_user" /\ resp.code = 403
    /\ resp.target[2] \notin DOMAIN users
    /\ resp.target[1] \in DOMAIN projects

\* ------------------------------------------------------------------------
\* SpecExport: the administrator saves annotations on an image, changes its
\* recorded width and downloads the YOLO export. The database is seeded as
\* the test fixtures seed it: one project with two images, the second of
\* which carries the two fixture annotations.
ExportBoxes ==
    [class_id : {0, 1}, class_name : {"person"}, color : {"#ff0000"},
     x : {-10, 0, 60}, y : {0, 20}, width : {0, 50}, height : {0, 100}]

\* The two fixture annotations, in insertion order
FixtureBoxes ==
    <<[class_id |-> 0, class_name |-> "person", color |-> "#ff0000",
       x |-> 10, y |-> 20, width |-> 30, height |-> 40],
      [class_id |-> 1, class_name |-> "car", color |-> "#00ff00",
       x |-> 50, y |-> 60, width |-> 25, height |-> 35]>>

ExportLists == {<<>>, FixtureBoxes} \cup {<<b>> : b \in ExportBoxes}

\* Recorded sizes of an image: read by PIL at upload, unreadable, or set
\* later through update_image
ImageSizes ==
    {<<Some(100), Some(100)>>, <<Some(3), Some(7)>>, <<None, None>>, <<None, Some(100)>>}

ZeroWidth == [status |-> None, width |-> Some(0), height |-> None]

ExportImage(iid, stem, size) ==
    [Image(1, iid, [ImageFile EXCEPT !.filename.stem = stem], 1)
       EXCEPT !.width = size[1], !.height = size[2]]

InitExport ==
    /\ users = DefaultUsers
    /\ projects = (1 :> FixtureProject(1))
    /\ assigned = {}
    /\ \E size \in ImageSizes :
          images = (1 :> ExportImage(1, "a", size))
                     @@ (2 :> ExportImage(2, "b", <<Some(100), Some(100)>>))
    /\ annotations = [i \in ImageIds |->
                        IF i = 2 THEN [k \in 1..2 |-> Annotation(FixtureBoxes[k], 1)]
                        ELSE <<>>]
    /\ files = {ExportImage(i, "a", <<None, None>>).file_path : i \in {1, 2}}
    /\ exports = <<>>
    /\ upl = None
    /\ resp = NoResponse
    /\ NoSessions

ExportSave == \E cu \in Admins, anns \in ExportLists : save_annotations(cu, 1, anns)
ExportUpdateImage == \E cu \in Admins : update_image(cu, 1, ZeroWidth)
ExportDownload == \E cu \in Admins, iid \in ImageIds : download_annotations(cu, iid)

NextExport ==
    \/ ExportSave
    \/ ExportUpdateImage
    \/ ExportDownload

SpecExport == InitExport /\ [][NextExport]_vars

\* One unit of the exported numbers: they are kept as integer millionths
Million == 1000000

Abs(n) == IF n < 0 THEN -n ELSE n

\* v millionths is n/d printed with six decimals: no other multiple of a
\* millionth is nearer to n/d
SixDecimals(v, n, d) == 2 * Abs(v * d - n * Million) <= d

DownloadSucceeded == resp.op = "download_annotations" /\ resp.code = 200

\* Both recorded dimensions of the image are positive numbers
SizeKnown(image) ==
    /\ image.width # None /\ image.width[1] > 0
    /\ image.height # None /\ image.height[1] > 0

\* C12: for an image of known width W > 0 and height H > 0 the exported line
\* of each annotation is its class id followed by (x + w/2)/W, (y + h/2)/H,
\* w/W and h/H, each printed with six decimals; the box (0, 0, 50, 100) on a
\* 100x100 image yields 0.250000 0.500000 0.500000 1.000000.
C12_YoloLine ==
    [][(DownloadSucceeded' /\ SizeKnown(images[resp'.target])) =>
         LET rows == annotations[resp'.target]
             W == images[resp'.target].width[1]
             H == images[resp'.target].height[1]
             out == exports'[resp'.body]
         IN /\ Len(out) = Len(rows)
            /\ \A k \in 1..Len(rows) :
                 /\ Len(out[k]) = 5
                 /\ out[k][1] = rows[k].class_id
                 /\ SixDecimals(out[k][2], 2 * rows[k].x + rows[k].width, 2 * W)
                 /\ SixDecimals(out[k][3], 2 * rows[k].y + rows[k].height, 2 * H)
                 /\ SixDecimals(out[k][4], rows[k].width, W)
                 /\ SixDecimals(out[k][5], rows[k].height, H)
                 /\ (/\ <<rows[k].x, rows[k].y, rows[k].width, rows[k].height>>
                          = <<0, 0, 50, 100>>
                     /\ <<W, H>> = <<100, 100>>)
                      => Tail(out[k]) = <<250000, 500000, 500000, 1000000>>]_vars

\* The box (0, 0, 50, 100) of a 100x100 image was exported
C12_Witness ==
    /\ DownloadSucceeded /\ resp.target = 1
    /\ images[1].width = Some(100) /\ images[1].height = Some(100)
    /\ box_of(annotations[1][1]) \in ExportBoxes
    /\ exports[resp.body] = << <<0, 250000, 500000, 500000, 1000000>> >>

\* The value v millionths, scaled back by the side s of the image, is
\* within half a millionth of s of the length n/d
Decodes(v, s, n, d) == 2 * Abs(d * v * s - n * Million) <= d * s

\* C13: the normalization is invertible: for every box (x, y, w, h) of an
\* image of size (W, H) with W, H > 0, center_x*W - w/2 = x,
\* center_y*H - h/2 = y, norm_width*W = w and norm_height*H = h, up to the
\* six decimals of the exported values.
C13_RoundTrip ==
    [][(DownloadSucceeded' /\ SizeKnown(images[resp'.target])) =>
         LET rows == annotations[resp'.target]
             W == images[resp'.target].width[1]
             H == images[resp'.target].height[1]
             out == exports'[resp'.body]
         IN \A k \in 1..Len(rows) :
              \* center_x*W - w/2 = x, with the halves cleared: d = 2
              /\ Decodes(out[k][2], W, 2 * rows[k].x + rows[k].width, 2)
              /\ Decodes(out[k][3], H, 2 * rows[k].y + rows[k].height, 2)
              /\ Decodes(out[k][4], W, rows[k].width, 1)
              /\ Decodes(out[k][5], H, rows[k].height, 1)]_vars

\* A box whose normalized width has no finite decimal expansion was
\* exported: 50/3 is printed as 16.666667
C13_Witness ==
    /\ DownloadSucceeded /\ resp.target = 1
    /\ images[1].width = Some(3) /\ images[1].height = Some(7)
    /\ Len(exports[resp.body]) = 1
    /\ exports[resp.body][1][4] = 16666667
    /\ annotations[1][1].x < 0

\* The box lies within an image of size (W, H)
InBounds(row, W, H) ==
    /\ row.x >= 0 /\ row.y >= 0 /\ row.width >= 0 /\ row.height >= 0
    /\ row.x + row.width <= W
    /\ row.y + row.height <= H

\* C14: the export does not clamp: a box with a negative origin, a zero size
\* or an extent beyond the image is exported with its arithmetic values,
\* also when they fall outside [0,1]; for every box that lies within the
\* image all four exported values lie in [0,1].
C14_NoClamping ==
    [][(DownloadSucceeded' /\ SizeKnown(images[resp'.target])) =>
         LET rows == annotations[resp'.target]
             W == images[resp'.target].width[1]
             H == images[resp'.target].height[1]
             out == exports'[resp'.body]
         IN \A k \in 1..Len(rows) :
              IF InBounds(rows[k], W, H)
              THEN \A j \in 2..5 : out[k][j] >= 0 /\ out[k][j] <= Million
              ELSE /\ SixDecimals(out[k][2], 2 * rows[k].x + rows[k].width, 2 * W)
                   /\ SixDecimals(out[k][3], 2 * rows[k].y + rows[k].height, 2 * H)
                   /\ SixDecimals(out[k][4], rows[k].width, W)
                   /\ SixDecimals(out[k][5], rows[k].height, H)
                   /\ (2 * rows[k].x + rows[k].width < 0 => out[k][2] < 0)
                   /\ (rows[k].width > W => out[k][4] > Million)
                   /\ (rows[k].height > H => out[k][5] > Million)
                   /\ (rows[k].width = 0 => out[k][4] = 0)
                   /\ (rows[k].height = 0 => out[k][5] = 0)]_vars

\* A box of zero width with a negative origin and a height beyond the image
\* was exported: a negative center, a zero width, a height above one
C14_Witness ==
    /\ DownloadSucceeded /\ resp.target = 1
    /\ SizeKnown(images[1])
    /\ Len(exports[resp.body]) = 1
    /\ exports[resp.body][1][2] < 0
    /\ exports[resp.body][1][4] = 0
    /\ exports[resp.body][1][5] > Million

\* A download_annotations request on an image that exists
DownloadServed ==
    /\ resp.op = "download_annotations"
    /\ resp.target \in DOMAIN images

\* Both dimensions of the image are recorded
SizeRecorded(image) == image.width # None /\ image.height # None

\* Both dimensions of the image are recorded and neither is zero
SizeUsable(image) == TruthyInt(image.width) /\ TruthyInt(image.height)

\* C15 as stated: when the width or the height of the image is not known the
\* download succeeds and emits no line; when both are known it emits exactly
\* one line per stored annotation of that image, and none for the
\* annotations of other images.
C15_OneLinePerAnnotation ==
    [][(DownloadServed' /\ annotations[resp'.target] # <<>>) =>
         /\ resp'.code = 200
         /\ LET rows == annotations[resp'.target]
                out == exports'[resp'.body]
            IN IF SizeRecorded(images[resp'.target])
               THEN /\ Len(out) = Len(rows)
                    /\ \A k \in 1..Len(rows) : out[k][1] = rows[k].class_id
               ELSE out = <<>>]_vars

\* C15: when the width or the height of the image is not known, or is zero,
\* the download succeeds and emits no line; when both are known and not zero
\* it emits exactly one line per stored annotation of that image, and none
\* for the annotations of other images.
C15_OneLinePerUsableAnnotation ==
    [][(DownloadServed' /\ annotations[resp'.target] # <<>>) =>
         /\ resp'.code = 200
         /\ LET rows == annotations[resp'.target]
                out == exports'[resp'.body]
            IN IF SizeUsable(images[resp'.target])
               THEN /\ Len(out) = Len(rows)
                    /\ \A k \in 1..Len(rows) : out[k][1] = rows[k].class_id
               ELSE out = <<>>]_vars

\* The annotations of an image whose width was set to zero were exported as
\* an empty file, while the other image holds annotations of its own
C15_Witness ==
    /\ DownloadSucceeded /\ resp.target = 1
    /\ images[1].width = Some(0) /\ images[1].height # None
    /\ annotations[1] # <<>> /\ annotations[2] # <<>>
    /\ exports[resp.body] = <<>>

\* C16: download_annotations on an accessible image that has no annotation
\* signals not-found and writes no export file, also when the annotations
\* were cleared by saving an empty list.
C16_EmptyExportNotFound ==
    [][(/\ DownloadServed'
        /\ get_accessible_image_status(resp'.user, resp'.target) = 200
        /\ annotations[resp'.target] = <<>>)
         => (resp'.code = 404 /\ exports' = exports /\ db' = db)]_vars

\* The export of an image was refused after its annotations, exported
\* before, had been cleared by saving the empty list
C16_Witness ==
    /\ resp.op = "download_annotations" /\ resp.code = 404 /\ resp.target = 1
    /\ annotations[1] = <<>>
    /\ annotation_file(images[1]) \in DOMAIN exports
    /\ images[1].status = "completed"

\* ------------------------------------------------------------------------
\* SpecUpload: the administrator uploads batches of files to the fixture
\* project, downloads and deletes images and deletes the project, in any
\* interleaving with an upload suspended at its await; a stored file may
\* also disappear from the disk.
MaxUploadBatch == 2

PngFile ==
    [filename |-> [stem |-> "b", suffix |-> ".png"],
     content_type |-> Some([main |-> "image", sub |-> "png"]),
     size |-> 162, dims |-> <<100, 100>>]

\* A file sent without a content type
UntypedFile ==
    [filename |-> [stem |-> "raw", suffix |-> ""],
     content_type |-> None,
     size |-> 5, dims |-> None]

UploadFiles == {ImageFile, TextFile}

\* The batches up to the bound, the batch of the mixed upload test (a valid
\* image, a text file, another valid image) and a batch that begins with an
\* untyped file
UploadBatches ==
    SeqsUpTo(UploadFiles, MaxUploadBatch)
      \cup {<<ImageFile, TextFile, PngFile>>, <<UntypedFile, PngFile>>}

InitUpload ==
    /\ users = DefaultUsers
    /\ projects = (1 :> FixtureProject(1))
    /\ assigned = {}
    /\ images = <<>>
    /\ annotations = [i \in ImageIds |-> <<>>]
    /\ files = {}
    /\ exports = <<>>
    /\ upl = None
    /\ resp = NoResponse
    /\ NoSessions

\* A stored file is removed from the disk without the service
FileLost ==
    /\ \E f \in files : files' = files \ {f}
    /\ resp' = NoResponse
    /\ UNCHANGED env
    /\ UNCHANGED <<users, projects, assigned, images, annotations, exports, upl>>

UploadBatch == \E cu \in Admins, pid \in ProjectIds, batch \in UploadBatches :
                  upload_images(cu, pid, batch)
UploadRead == upload_resume(TRUE)
UploadSave == \E cu \in Admins, iid \in ImageIds : save_annotations(cu, iid, FixtureBoxes)
UploadDownloadImage == \E cu \in Admins, iid \in ImageIds : download_image(cu, iid)
UploadDeleteImage == \E cu \in Admins, iid \in ImageIds : delete_image(cu, iid)
UploadDeleteProject == \E cu \in Admins, pid \in ProjectIds : delete_project(cu, pid)

NextUpload ==
    \/ UploadBatch
    \/ UploadRead
    \/ UploadSave
    \/ UploadDownloadImage
    \/ UploadDeleteImage
    \/ UploadDeleteProject
    \/ FileLost

SpecUpload == InitUpload /\ [][NextUpload]_vars

\* The declared content type of the file begins with image/
DeclaredImage(file) == file.content_type # None /\ file.content_type[1].main = "image"

UploadDone == resp.op = "upload_images" /\ resp.code = 200
UploadSuspended == resp.op = "upload_images" /\ resp.code = 0

UploadFailed == resp.op = "upload_images" /\ resp.code = 500

\* The files the suspended upload has created on disk so far
BatchFiles ==
    IF upl = None THEN {}
    ELSE {upl[1].written[j] : j \in 1..Len(upl[1].written)}
           \cup {file_path(upl[1].project_id, upl[1].image_id,
                           Head(upl[1].rest).filename.suffix)}

C19_RejectedReported ==
    [][UploadDone' =>
         \A k \in 1..Len(resp'.req) :
            ~DeclaredImage(resp'.req[k]) =>
               \E j \in 1..Len(resp'.body) :
                  images'[resp'.body[j]].name = resp'.req[k].filename]_vars

\* C19: the result of an upload lists the stored images and nothing else: it
\* has one entry per file that passed the type check, each the record of a
\* stored image, and no entry for a file rejected as a non-image.
C19_OnlyStoredReported ==
    [][UploadDone' =>
         /\ Len(resp'.body) = Len(SelectSeq(resp'.req, DeclaredImage))
         /\ \A j \in 1..Len(resp'.body) : resp'.body[j] \in DOMAIN images'
         /\ \A k \in 1..Len(resp'.req) :
               ~DeclaredImage(resp'.req[k]) =>
                  \A j \in 1..Len(resp'.body) :
                     images'[resp'.body[j]].name # resp'.req[k].filename]_vars

\* A batch of a text file followed by an image was answered with the one
\* stored image
C19_Witness ==
    /\ UploadDone
    /\ resp.req = <<TextFile, ImageFile>>
    /\ Len(resp.body) = 1
    /\ images[resp.body[1]].name = ImageFile.filename

\* The request names an image the caller may access whose file is not on
\* the disk
FileMissing(u, iid) ==
    /\ get_accessible_image_status(u, iid) = 200
    /\ images[iid].file_path \notin files

\* C20: a missing file is tolerated: download_image for a record whose file
\* is absent answers not-found and leaves the record and its annotations in
\* place; delete_image for such a record succeeds and removes the record
\* and its annotations.
C20_MissingFileTolerated ==
    [][/\ (resp'.op = "download_image" /\ FileMissing(resp'.user, resp'.target))
            => (resp'.code = 404 /\ db' = db)
       /\ (resp'.op = "delete_image" /\ FileMissing(resp'.user, resp'.target))
            => /\ resp'.code = 200
               /\ images' = Restrict(images, DOMAIN images \ {resp'.target})
               /\ annotations' = [annotations EXCEPT ![resp'.target] = <<>>]
               /\ files' = files]_vars

\* The download of an annotated image whose file has disappeared was
\* answered with not-found
C20_Witness ==
    /\ resp.op = "download_image" /\ resp.code = 404
    /\ resp.target \in DOMAIN images
    /\ images[resp.target].file_path \notin files
    /\ annotations[resp.target] # <<>>

\* C30: whenever no request is being served, every image file in the
\* per-project storage directories is the stored file of an image record.
C30_NoOrphanFiles ==
    upl = None => \A f \in files : \E i \in DOMAIN images : images[i].file_path = f

\* ------------------------------------------------------------------------
\* SpecAuth: users log in, the clock advances, and the holders of the issued
\* tokens call authenticated routes, account management included.
MaxTokens == 2
MaxClock == 3

Credentials == [username : {"tcci", "tcc"}, password : {"tcc", "bad"}]
ReusedUserData == [username : {"tcc"}, password : {"pw2"}, role : {"annotator"}]

Login ==
    \E c \in Credentials :
        /\ authenticate_user(c.username, c.password) # None => Cardinality(tokens) < MaxTokens
        /\ login(c.username, c.password)

\* Time passes
Tick ==
    /\ now < MaxClock
    /\ now' = now + 1
    /\ UNCHANGED <<db, upl, resp, tokens, sess>>

TokenAuthMe(t) == get_current_user_info(t.token)
TokenGetUsers(t) ==
    LET cu == get_current_user(t.token)
    IN IF cu = None THEN unauthorized("get_users", t.token) ELSE get_users(cu[1])
TokenGetProjects(t) ==
    LET cu == get_current_user(t.token)
    IN IF cu = None THEN unauthorized("get_projects", t.token) ELSE get_projects(cu[1])
TokenRegister(t) ==
    \E data \in ReusedUserData :
        LET cu == get_current_user(t.token)
        IN IF cu = None THEN unauthorized("register", t.token) ELSE register(cu[1], data)
TokenDeleteUser(t) ==
    \E uid \in UserIds :
        LET cu == get_current_user(t.token)
        IN IF cu = None THEN unauthorized("delete_user", t.token)
           ELSE delete_user(cu[1], uid)

NextAuth ==
    \/ Login
    \/ Tick
    \/ \E t \in tokens : TokenAuthMe(t)
    \/ \E t \in tokens : TokenGetUsers(t)
    \/ \E t \in tokens : TokenGetProjects(t)
    \/ \E t \in tokens : TokenRegister(t)
    \/ \E t \in tokens : TokenDeleteUser(t)

SpecAuth == InitDatabase /\ [][NextAuth]_vars

\* A request bearing the token t is served
Presented(t) ==
    \/ TokenAuthMe(t)
    \/ TokenGetUsers(t)
    \/ TokenGetProjects(t)
    \/ TokenRegister(t)
    \/ TokenDeleteUser(t)

AccountDeleted(t) == t.uid \notin DOMAIN users
Expired(t) == t.token.exp < now

\* C22: a request bearing a token whose account has been deleted, or a token
\* past its expiry, is answered 401 on every authenticated route.
C22_DeadTokenRejected ==
    [][\A t \in tokens :
          (AccountDeleted(t) \/ Expired(t)) /\ Presented(t) => resp'.code = 401]_vars

\* ------------------------------------------------------------------------
\* SpecMembership: projects, assignments and accounts change through the
\* routes only, starting from the initialised database.
NextMembership ==
    \/ CreateProject
    \/ DeleteProject
    \/ AssignUser
    \/ UnassignUser
    \/ GatedRegister
    \/ GatedUpdateUser
    \/ GatedDeleteUser

SpecMembership == InitDatabase /\ [][NextMembership]_vars

\* C23: the creator of every existing project is an existing user and a
\* member of the project's assigned-user set.
C23_CreatorIsMember ==
    \A p \in DOMAIN projects :
        /\ projects[p].created_by \in DOMAIN users
        /\ <<p, projects[p].created_by>> \in assigned

\* The deletion of a project's creator was refused while a second user is
\* assigned to that project
C23_Witness ==
    /\ resp.op = "delete_user" /\ resp.code = 400
    /\ \E p \in DOMAIN projects :
           /\ projects[p].created_by = resp.target
           /\ \E u \in DOMAIN users \ {resp.target} : <<p, u>> \in assigned

\* ------------------------------------------------------------------------
\* SpecListing: every user lists the projects, opens a project and reads an
\* image's annotations while projects are created and assignments change;
\* the database is seeded with one project and one image of it.
InitListing ==
    /\ users = DefaultUsers
    /\ \E creator \in DOMAIN DefaultUsers :
          /\ projects = (1 :> FixtureProject(creator))
          /\ images = (1 :> Image(1, 1, ImageFile, creator))
    /\ assigned \in {{}, {<<1, 2>>}}
    /\ annotations = [i \in ImageIds |-> <<>>]
    /\ files = {Image(1, 1, ImageFile, 1).file_path}
    /\ exports = <<>>
    /\ upl = None
    /\ resp = NoResponse
    /\ NoSessions

ListingGetAnnotations ==
    \E cu \in DOMAIN users, iid \in ImageIds : get_annotations(cu, iid)

NextListing ==
    \/ CreateProject
    \/ AssignUser
    \/ UnassignUser
    \/ GetProjects
    \/ GetProject
    \/ ListingGetAnnotations

SpecListing == InitListing /\ [][NextListing]_vars

\* Projects the user can open directly
Openable(u) == {p \in DOMAIN projects : get_project_status(u, p) = 200}

\* C24: the projects a listing returns are exactly the projects the same
\* user can open with get_project, and exactly those whose images the user
\* can reach; for an admin they are all the projects.
C24_ListingAgreesWithAccess ==
    /\ resp.op = "get_projects" =>
          /\ resp.body = Openable(resp.user)
          /\ \A i \in DOMAIN images :
                 get_accessible_image_status(resp.user, i) = 200
                    <=> images[i].project_id \in resp.body
          /\ IsAdmin(resp.user) => resp.body = DOMAIN projects
    /\ (resp.op = "get_project" /\ resp.target \in DOMAIN projects) =>
          (resp.code = 200 <=> resp.target \in get_user_projects(resp.user))
    /\ (resp.op = "get_annotations" /\ resp.target \in DOMAIN images) =>
          (resp.code = 200 <=>
              images[resp.target].project_id \in get_user_projects(resp.user))

\* An annotator's listing returned one project and left out another that
\* exists
C24_Witness ==
    /\ resp.op = "get_projects" /\ ~IsAdmin(resp.user)
    /\ resp.body # {} /\ resp.body # DOMAIN projects

\* ------------------------------------------------------------------------
\* SpecAccess: an admin assigns and unassigns the annotator on a project the
\* admin created through the API, while the holders of tokens issued at any
\* earlier time call the project-scoped routes of that project and its image.
InitAccess ==
    /\ users = DefaultUsers
    /\ projects = (1 :> FixtureProject(1))
    /\ assigned = {<<1, 1>>, <<1, 2>>}
    /\ images = (1 :> Image(1, 1, ImageFile, 1))
    /\ annotations = [i \in ImageIds |-> <<>>]
    /\ files = {Image(1, 1, ImageFile, 1).file_path}
    /\ exports = <<>>
    /\ upl = None
    /\ resp = NoResponse
    /\ NoSessions

AccessAssign == \E cu \in Admins : assign_user_to_project(cu, 1, 2)
AccessUnassign == \E cu \in Admins : unassign_user_from_project(cu, 1, 2)

TokenGetProject(t) ==
    LET cu == get_current_user(t.token)
    IN IF cu = None THEN unauthorized("get_project", t.token) ELSE get_project(cu[1], 1)
TokenGetProjectImages(t) ==
    LET cu == get_current_user(t.token)
    IN IF cu = None THEN unauthorized("get_project_images", t.token)
       ELSE get_project_images(cu[1], 1)
TokenGetAnnotations(t) ==
    LET cu == get_current_user(t.token)
    IN IF cu = None THEN unauthorized("get_annotations", t.token)
       ELSE get_annotations(cu[1], 1)
TokenSaveAnnotations(t) ==
    \E anns \in {<<>>, FixtureBoxes} :
        LET cu == get_current_user(t.token)
        IN IF cu = None THEN unauthorized("save_annotations", t.token)
           ELSE save_annotations(cu[1], 1, anns)

NextAccess ==
    \/ Login
    \/ AccessAssign
    \/ AccessUnassign
    \/ \E t \in tokens : TokenGetProject(t)
    \/ \E t \in tokens : TokenGetProjectImages(t)
    \/ \E t \in tokens : TokenGetAnnotations(t)
    \/ \E t \in tokens : TokenSaveAnnotations(t)

SpecAccess == InitAccess /\ [][NextAccess]_vars

\* A request on project 1 or on its image bearing the token t is served
ScopedRequest(t) ==
    \/ TokenGetProject(t)
    \/ TokenGetProjectImages(t)
    \/ TokenGetAnnotations(t)
    \/ TokenSaveAnnotations(t)

\* C25: once the annotator's assignment to the project has been removed,
\* every project-scoped request the annotator sends on the project or its
\* image is answered forbidden, also with a token issued before; while the
\* annotator is assigned, the same token is authorized.
C25_AccessFollowsAssignment ==
    [][\A t \in tokens :
          /\ (~IsAdmin(t.uid) /\ <<1, t.uid>> \notin assigned /\ ScopedRequest(t))
                => resp'.code = 403
          /\ (<<1, t.uid>> \in assigned /\ ScopedRequest(t))
                => resp'.code = 200]_vars

\* ------------------------------------------------------------------------
\* SpecSave: save_annotations requests run concurrently, each in a session
\* of its own, on the two annotated images of a seeded project.
MaxSessions == 2
SessionIds == 1..MaxSessions

ClassBox(c) == [FixtureBoxes[1] EXCEPT !.class_id = c]
SavedLists == {<<>>, <<ClassBox(1)>>, <<ClassBox(2), ClassBox(3)>>}
SeededRows == <<Annotation(ClassBox(0), 1), Annotation(ClassBox(4), 1)>>

InitSave ==
    /\ users = DefaultUsers
    /\ projects = (1 :> FixtureProject(1))
    /\ assigned = {<<1, 1>>, <<1, 2>>}
    /\ images = [i \in ImageIds |-> ExportImage(i, "a", <<Some(100), Some(100)>>)]
    /\ annotations = [i \in ImageIds |-> SeededRows]
    /\ files = {ExportImage(i, "a", <<None, None>>).file_path : i \in ImageIds}
    /\ exports = <<>>
    /\ upl = None
    /\ resp = NoResponse
    /\ NoSessions

\* An image id no image has
UnknownImage == 0

SaveOpen ==
    \E s \in SessionIds, cu \in DOMAIN users, iid \in ImageIds \cup {UnknownImage},
       anns \in SavedLists :
        save_open(s, cu, iid, anns)

NextSave ==
    \/ SaveOpen
    \/ \E s \in SessionIds : save_missing(s)
    \/ \E s \in SessionIds : save_delete(s)
    \/ \E s \in SessionIds : save_commit(s)

SpecSave == InitSave /\ [][NextSave]_vars

\* The rows a committed save request stored
StoredBy(s) == [k \in 1..Len(sess[s].req) |-> Annotation(sess[s].req[k], sess[s].cu)]

Committed(s, iid) ==
    s \in DOMAIN sess /\ sess[s].target = iid /\ sess[s].pc = "done" /\ sess[s].code = 200

MoreUserData == [username : {"new", "tcci"}, password : {"pw1", "pw2"}, role : Roles]

InitRegister ==
    /\ users = Restrict(DefaultUsers, {1})
    /\ projects = <<>>
    /\ assigned = {}
    /\ images = <<>>
    /\ annotations = [i \in ImageIds |-> <<>>]
    /\ files = {}
    /\ exports = <<>>
    /\ upl = None
    /\ resp = NoResponse
    /\ NoSessions

CreateOpen ==
    \E s \in SessionIds, cu \in Admins, data \in MoreUserData : create_open(s, cu, data)

NextRegister ==
    \/ CreateOpen
    \/ \E s \in SessionIds : create_exists(s)
    \/ \E s \in SessionIds : create_insert(s)
    \/ \E s \in SessionIds : create_commit(s)

SpecRegister == InitRegister /\ [][NextRegister]_vars

Answered(s) == s \in DOMAIN sess /\ sess[s].pc = "done"

\* C28: of the create_user requests for one username, the ones that passed
\* the existence check together included, exactly one stores a user with
\* that username; every other one is answered bad-request 'Username already
\* exists', and none ends in an unhandled error.
C28_OneCreateWins ==
    /\ \A u, v \in DOMAIN users : users[u].username = users[v].username => u = v
    /\ \A s \in SessionIds : Answered(s) =>
          /\ sess[s].code \in {200, 400}
          /\ sess[s].code = 200 =>
                /\ sess[s].target \in DOMAIN users
                /\ users[sess[s].target].username = sess[s].req.username
          /\ sess[s].code = 400 =>
                /\ resp.op = "register" /\ resp.req = sess[s].req /\ resp.code = 400
                      => resp.body = "Username already exists"
                /\ \E u \in DOMAIN users : users[u].username = sess[s].req.username
    /\ \A s, o \in SessionIds :
          (s # o /\ Answered(s) /\ Answered(o)
             /\ sess[s].req.username = sess[o].req.username)
            => ~(sess[s].code = 200 /\ sess[o].code = 200)

\* Two requests for the same new username both passed the existence check;
\* one committed and the other was refused on the constraint
C28_Witness ==
    \E s, o \in SessionIds :
        /\ s # o /\ Answered(s) /\ Answered(o)
        /\ sess[s].req.username = sess[o].req.username
        /\ sess[s].code = 200
        /\ sess[o].code = 400 /\ sess[o].via = "IntegrityError"

\* ------------------------------------------------------------------------
\* SpecExportRace: exports run concurrently, each in a session of its own,
\* on a project whose two images were uploaded as a.JPG and a.png and carry
\* different annotations.
InitExportRace ==
    /\ users = DefaultUsers
    /\ projects = (1 :> FixtureProject(1))
    /\ assigned \in {{<<1, 1>>}, {<<1, 1>>, <<1, 2>>}}
    /\ images = (1 :> Image(1, 1, ImageFile, 1))
                   @@ (2 :> Image(1, 2, [PngFile EXCEPT !.filename.stem = "a"], 1))
    /\ annotations = [i \in ImageIds |->
                        IF i = 1 THEN <<Annotation(FixtureBoxes[1], 1)>>
                        ELSE IF i = 2 THEN <<Annotation(FixtureBoxes[2], 1)>>
                        ELSE <<>>]
    /\ files = {Image(1, 1, ImageFile, 1).file_path,
                Image(1, 2, [PngFile EXCEPT !.filename.stem = "a"], 1).file_path}
    /\ exports = <<>>
    /\ upl = None
    /\ resp = NoResponse
    /\ NoSessions

ExportWrite ==
    \E s \in SessionIds, cu \in DOMAIN users, iid \in ImageIds \cup {UnknownImage} :
        export_write(s, cu, iid)

NextExportRace ==
    \/ ExportWrite
    \/ \E s \in SessionIds : export_fail(s)
    \/ \E s \in SessionIds : export_send(s)

SpecExportRace == InitExportRace /\ [][NextExportRace]_vars

\* C29: the content an export of image A returns consists only of lines
\* derived from A's own annotations, also when another image of the project
\* has the same filename stem and is exported concurrently.
C29_ExportOwnLines ==
    \A s \in SessionIds :
        (Answered(s) /\ sess[s].op = "download_annotations" /\ sess[s].code = 200) =>
            Range(sess[s].body[1])
                \subseteq Range(yolo_lines(annotations[sess[s].target],
                                           images[sess[s].target]))

====
